---- MODULE Spec2Model ----
(***************************************************************************)
(* State-machine model of checks.d/snmp.py: one check cycle of SnmpCheck    *)
(* for one device instance (query building, the transport query and its    *)
(* aggregation into the result set, tag resolution, metric classification  *)
(* and emission).                                                          *)
(***************************************************************************)
EXTENDS Integers, Sequences, FiniteSets, TLC

VARIABLES instance, pc, table_oids, error_indication, error_status, results,
          items_reversed, mi, si, remaining, submissions, warnings, error, calls,
          queries

\* instance          the device instance check() is called with
\* pc                where the cycle is: "build" (check, lines 131-142), "query"
\*                   (check_table), "report" (report_table_metrics), "done",
\*                   or "raised" (an exception left check())
\* table_oids        the query targets built by check()
\* error_indication,
\* error_status      what the transport query returned ("" and 0: no error)
\* results           metric name -> (index tuple -> value), built by check_table
\* items_reversed    the order in which the result dicts yield their rows
\* mi, si, remaining the metric spec, the symbol and the rows still to iterate
\* submissions       what was handed to self.rate / self.gauge, in order
\* warnings          the lines logged with self.log.warning, in order
\* error             the exception raised, if any
\* calls             the calls of submit_metric made, in order
\* queries           the number of transport queries issued
vars == <<instance, pc, table_oids, error_indication, error_status, results,
          items_reversed, mi, si, remaining, submissions, warnings, error, calls,
          queries>>

(* ------------------------------ bounds --------------------------------- *)
MaxMetrics == 2
MaxRows == 2

(* --------------------------- python helpers ---------------------------- *)
\* dict.get(key, default)
Get(d, k, default) == IF k \in DOMAIN d THEN d[k] ELSE default

\* defaultdict(dict) read: a missing metric name reads as the empty dict
Lookup(res, name) == IF name \in DOMAIN res THEN res[name] ELSE <<>>

\* t[k] on a python tuple, k 0-based: a negative k counts from the end,
\* anything outside -len..len-1 is an IndexError
PyIndex(t, k) ==
  IF k >= 0 /\ k < Len(t) THEN [ok |-> TRUE, val |-> t[k + 1]]
  ELSE IF k < 0 /\ k >= 0 - Len(t) THEN [ok |-> TRUE, val |-> t[Len(t) + k + 1]]
  ELSE [ok |-> FALSE, val |-> 0]

(* ----------------------------- raw values ------------------------------ *)
\* A RawValue: the ASN.1 tag the sentinels are recognised by, the class name
\* of the python object, and the numeric payload.
Val(cls, payload) == [tag |-> "value", cls |-> cls, payload |-> payload]
NoSuchInstanceVal == [tag |-> "noSuchInstance", cls |-> "NoSuchInstance", payload |-> 0]
NoSuchObjectVal == [tag |-> "noSuchObject", cls |-> "NoSuchObject", payload |-> 0]

SNMP_COUNTERS_NoZeroBased == <<"Counter32", "Counter64">>
SNMP_COUNTERS_NoCounter32 == <<"Counter64", "ZeroBasedCounter64">>
SNMP_COUNTERS == <<"Counter32", "Counter64", "ZeroBasedCounter64">>
SNMP_GAUGES == <<"Gauge32", "CounterBasedGauge64">>

reply_invalid_InstanceOnly(oid) == oid.tag = "noSuchInstance"
reply_invalid(oid) == oid.tag = "noSuchInstance" \/ oid.tag = "noSuchObject"

\* int(snmp_value)
ToInt(v) == v.payload

\* str(snmp_value), as "{1}".format gives it
PrettyPrint(v) ==
  IF v.tag = "noSuchInstance" THEN "No Such Instance currently exists at this OID"
  ELSE IF v.tag = "noSuchObject" THEN "No Such Object currently exists at this OID"
  ELSE ToString(v.payload)

InSeq(x, s) == \E i \in 1..Len(s) : s[i] = x

(* --------------------------- configuration ----------------------------- *)
IndexPositions == {0, 1, 2}
IndexLengths == {1, 2}

ScalarSpec == [MIB |-> "SNMPv2-MIB", symbol |-> "sysUpTime"]
NeitherSpec == [MIB |-> "IF-MIB"]
NoMibSpec == [symbol |-> "sysUpTime"]
IndexTableSpec(n) ==
  [MIB |-> "IF-MIB", table |-> "ifTable", symbols |-> <<"ifInOctets">>,
   metric_tags |-> << [tag |-> "interface", index |-> n] >>]
ColumnTableSpec ==
  [MIB |-> "IF-MIB", table |-> "ifTable", symbols |-> <<"ifInOctets", "ifSpeed">>,
   metric_tags |-> << [tag |-> "speed", column |-> "ifSpeed"],
                      [tag |-> "interface", index |-> 1] >>]

MetricSpecs ==
  {ScalarSpec, NeitherSpec, NoMibSpec, ColumnTableSpec}
    \cup {IndexTableSpec(n) : n \in IndexPositions}

MetricLists == UNION {[1..n -> MetricSpecs] : n \in 0..MaxMetrics}

Instances ==
  {[ip_address |-> "10.0.0.1", tags |-> <<"env:lab">>, metrics |-> ms,
    community_string |-> "public"] : ms \in MetricLists}
  \cup
  {[ip_address |-> "10.0.0.1", tags |-> <<"env:lab">>, metrics |-> ms]
     : ms \in MetricLists}

(* ------------------------------ transport ------------------------------ *)
\* The columns a walk of a queried object returns.
ColumnsUnder(name) ==
  IF name = "ifTable" THEN {"ifInOctets", "ifSpeed"}
  ELSE IF name = "sysUpTime" THEN {"sysUpTime"}
  ELSE {}

Queried(oids) == UNION {ColumnsUnder(oids[i].name) : i \in 1..Len(oids)}

RowIndex(r, len) == IF len = 1 THEN <<r>> ELSE <<r, r + 4>>

OctetsChoices(r) == {Val("Counter32", 100 + 400 * r), NoSuchInstanceVal}
SpeedChoices(r) == {Val("Gauge32", 1000 * r)}

\* One row of the walk of ifTable: (resolved object, value) pairs.
RowBinds(r, len, octets, speed) ==
  << [metric |-> "ifInOctets", indexes |-> RowIndex(r, len), value |-> octets] >>
  \o (IF speed = {} THEN <<>>
      ELSE << [metric |-> "ifSpeed", indexes |-> RowIndex(r, len),
               value |-> CHOOSE v \in speed : TRUE] >>)

RowSets(r, len) ==
  {RowBinds(r, len, o, s) : o \in OctetsChoices(r),
                            s \in {{}} \cup {{v} : v \in SpeedChoices(r)}}

TableBinds ==
  UNION {UNION {{f \in [1..n -> UNION {RowSets(r, len) : r \in 1..n}] :
                   \A r \in 1..n : f[r] \in RowSets(r, len)}
                : n \in 0..MaxRows}
         : len \in IndexLengths}

ScalarBinds ==
  {<<>>}
  \cup {<< << [metric |-> "sysUpTime", indexes |-> <<0>>, value |-> v] >> >>
          : v \in {Val("Counter32", 12345), Val("TimeTicks", 12345), NoSuchObjectVal}}

\* var_binds a device can answer a query for oids with
VarBinds(oids) ==
  {t \o s : t \in (IF "ifInOctets" \in Queried(oids) THEN TableBinds ELSE {<<>>}),
            s \in (IF "sysUpTime" \in Queried(oids) THEN ScalarBinds ELSE {<<>>})}

ErrorIndications == {"", "timeout"}
ErrorStatuses == {0, 2}

\* error_status.prettyPrint()
StatusPrettyPrint(es) ==
  IF es = 0 THEN "noError" ELSE IF es = 1 THEN "tooBig" ELSE "noSuchName"

(* --------------------------- query building ---------------------------- *)
RECURSIVE BuildFrom(_, _, _, _)
\* The loop of check() over instance['metrics'], from metric i on.
BuildFrom(ms, i, oids, warns) ==
  IF i > Len(ms) THEN [raised |-> FALSE, oids |-> oids, warnings |-> warns]
  ELSE IF "MIB" \in DOMAIN ms[i]
    THEN IF "table" \in DOMAIN ms[i] \/ "symbol" \in DOMAIN ms[i]
         THEN BuildFrom(ms, i + 1,
                Append(oids, [MIB |-> ms[i].MIB,
                              name |-> Get(ms[i], "table", Get(ms[i], "symbol", ""))]),
                warns)
         ELSE BuildFrom(ms, i + 1, oids,
                Append(warns, "Can't generate MIB object for variable"))
    ELSE [raised |-> TRUE, oids |-> oids, warnings |-> warns]

RECURSIVE BuildFrom_AssertFatal(_, _, _, _)
BuildFrom_AssertFatal(ms, i, oids, warns) ==
  IF i > Len(ms) THEN [raised |-> FALSE, oids |-> oids, warnings |-> warns]
  ELSE IF "MIB" \in DOMAIN ms[i]
            /\ ("table" \in DOMAIN ms[i] \/ "symbol" \in DOMAIN ms[i])
    THEN BuildFrom_AssertFatal(ms, i + 1,
           Append(oids, [MIB |-> ms[i].MIB,
                         name |-> Get(ms[i], "table", Get(ms[i], "symbol", ""))]),
           warns)
    ELSE [raised |-> TRUE, oids |-> oids, warnings |-> warns]

BuildOids_AssertFatal(ms) == BuildFrom_AssertFatal(ms, 1, <<>>, <<>>)
BuildOids(ms) == BuildFrom(ms, 1, <<>>, <<>>)

(* --------------------------- result aggregation ------------------------ *)
\* results[metric][indexes] = value
Put(res, b) ==
  [m \in DOMAIN res \cup {b.metric} |->
     [ix \in DOMAIN Lookup(res, m) \cup (IF m = b.metric THEN {b.indexes} ELSE {}) |->
        IF m = b.metric /\ ix = b.indexes THEN b.value ELSE res[m][ix]]]

RECURSIVE PutAll(_, _)
PutAll(res, binds) ==
  IF binds = <<>> THEN res ELSE PutAll(Put(res, Head(binds)), Tail(binds))

RECURSIVE Aggregate(_, _)
Aggregate(res, var_binds) ==
  IF var_binds = <<>> THEN res
  ELSE Aggregate(PutAll(res, Head(var_binds)), Tail(var_binds))

ErrorMessage_NoAddress(err, ip) == err
\* "{0} for instance {1}".format(err, instance["ip_address"])
ErrorMessage(err, ip) == err \o " for instance " \o ip

(* ------------------------------ tag resolution ------------------------- *)
DeviceTags_NoDevice(inst) == Get(inst, "tags", <<>>)
\* tags = instance.get("tags", []) + ["snmp_device:" + ip_address]
DeviceTags(inst) == Get(inst, "tags", <<>>) \o << "snmp_device:" \o inst.ip_address >>

RECURSIVE SelectRules(_, _)
\* index_tags / column_tags: the (tag, index) or (tag, column) pairs, in rule order
SelectRules(rules, key) ==
  IF rules = <<>> THEN <<>>
  ELSE (IF key \in DOMAIN Head(rules)
          THEN << [tag |-> Head(rules).tag, arg |-> Head(rules)[key]] >>
          ELSE <<>>)
       \o SelectRules(Tail(rules), key)

IndexComponent_ZeroBased(index, n) == PyIndex(index, n)
\* index[idx_tag[1] - 1]
IndexComponent(index, n) == PyIndex(index, n - 1)

\* "{0}:{1}".format(tag, value)
TagString(tag, text) == tag \o ":" \o text

IndexTags(index_tags, index) ==
  [i \in 1..Len(index_tags) |->
     TagString(index_tags[i].tag,
               ToString(IndexComponent(index, index_tags[i].arg).val))]

IndexTagsOk(index_tags, index) ==
  \A i \in 1..Len(index_tags) : IndexComponent(index, index_tags[i].arg).ok

ColumnHit(res, col_tag, index) == index \in DOMAIN Lookup(res, col_tag.arg)

ColumnTagsOk_SkipTag(res, column_tags, index) == TRUE
ColumnTagsOk(res, column_tags, index) ==
  \A i \in 1..Len(column_tags) : ColumnHit(res, column_tags[i], index)

RECURSIVE ColumnTags(_, _, _)
ColumnTags(res, column_tags, index) ==
  IF column_tags = <<>> THEN <<>>
  ELSE (IF ColumnHit(res, Head(column_tags), index)
          THEN << TagString(Head(column_tags).tag,
                            PrettyPrint(res[Head(column_tags).arg][index])) >>
          ELSE <<>>)
       \o ColumnTags(res, Tail(column_tags), index)

(* --------------------------- classification ---------------------------- *)
\* submit_metric(name, snmp_value, tags): the submissions and log lines it adds
SubmitMetric(name, snmp_value, tags) ==
  IF reply_invalid(snmp_value)
    THEN [subs |-> <<>>, warns |-> << "No such Mib available: " \o name >>]
  ELSE LET metric_name == "snmp." \o name
           logged == << "metric: " \o metric_name >>
           snmp_class == snmp_value.cls
       IN IF InSeq(snmp_class, SNMP_COUNTERS)
            THEN [subs |-> << [kind |-> "rate", name |-> name,
                               value |-> ToInt(snmp_value), tags |-> tags] >>,
                  warns |-> logged]
          ELSE IF InSeq(snmp_class, SNMP_GAUGES)
            THEN [subs |-> << [kind |-> "gauge", name |-> name,
                               value |-> ToInt(snmp_value), tags |-> tags] >>,
                  warns |-> logged]
          ELSE [subs |-> <<>>,
                warns |-> logged \o << "Unsupported metric type " \o snmp_class >>]

(* ------------------------------ loop control --------------------------- *)
IsTable(m) == "table" \in DOMAIN m
IsScalar(m) == ~IsTable(m) /\ "symbol" \in DOMAIN m

\* the value symbols report_table_metrics iterates for one metric spec
SymbolsOf(m) ==
  IF IsTable(m) THEN Get(m, "symbols", <<>>)
  ELSE IF IsScalar(m) THEN << m.symbol >>
  ELSE <<>>

RECURSIVE Advance(_, _, _, _)
\* The next (metric, symbol) position, from (i, j) on, whose result dict has
\* rows to iterate; i = Len(ms) + 1 when the loops are over.
Advance(ms, res, i, j) ==
  IF i > Len(ms) THEN [mi |-> i, si |-> 1, rows |-> {}]
  ELSE IF j > Len(SymbolsOf(ms[i])) THEN Advance(ms, res, i + 1, 1)
  ELSE IF DOMAIN Lookup(res, SymbolsOf(ms[i])[j]) = {} THEN Advance(ms, res, i, j + 1)
  ELSE [mi |-> i, si |-> j, rows |-> DOMAIN Lookup(res, SymbolsOf(ms[i])[j])]

\* dict.items() yields the rows in an order that is arbitrary but the same every
\* time a result dict is iterated in the cycle: by row number, or the reverse.
NextItem(rows, reversed) ==
  CHOOSE ix \in rows :
    \A o \in rows : IF reversed THEN o[1] <= ix[1] ELSE ix[1] <= o[1]

NoError == [type |-> "none", msg |-> ""]

(* ------------------------------- actions ------------------------------- *)
Init ==
  /\ instance \in Instances
  /\ pc = "build"
  /\ table_oids = <<>>
  /\ error_indication = ""
  /\ error_status = 0
  /\ results = <<>>
  /\ items_reversed = FALSE
  /\ mi = 1
  /\ si = 1
  /\ remaining = {}
  /\ submissions = <<>>
  /\ warnings = <<>>
  /\ error = NoError
  /\ calls = <<>>
  /\ queries = 0

\* check(): the query-building loop
BuildQuery ==
  /\ pc = "build"
  /\ LET b == BuildOids(Get(instance, "metrics", <<>>))
     IN /\ table_oids' = b.oids
        /\ warnings' = warnings \o b.warnings
        /\ pc' = IF b.raised THEN "raised" ELSE "query"
        /\ error' = IF b.raised
                      THEN [type |-> "Exception",
                            msg |-> "Unsupported metrics format in config file"]
                      ELSE error
  /\ UNCHANGED <<instance, error_indication, error_status, results,
                 items_reversed, mi, si, remaining, submissions, calls, queries>>

\* check_table(): credentials, the transport query, the aggregation
CheckTable ==
  /\ pc = "query"
  /\ IF ~("community_string" \in DOMAIN instance \/ "user" \in DOMAIN instance)
       THEN /\ pc' = "raised"
            /\ error' = [type |-> "Exception",
                         msg |-> "An authentication method needs to be provided"]
            /\ UNCHANGED <<error_indication, error_status, results,
                           items_reversed, mi, si, remaining, queries>>
       ELSE \E ei \in ErrorIndications, es \in ErrorStatuses,
               var_binds \in VarBinds(table_oids), rev \in BOOLEAN :
              /\ queries' = queries + 1
              /\ error_indication' = ei
              /\ error_status' = es
              /\ IF ei # ""
                   THEN /\ pc' = "raised"
                        /\ error' = [type |-> "Exception",
                                     msg |-> ErrorMessage(ei, instance.ip_address)]
                        /\ UNCHANGED <<results, items_reversed, mi, si, remaining>>
                 ELSE IF es # 0
                   THEN /\ pc' = "raised"
                        /\ error' = [type |-> "Exception",
                                     msg |-> ErrorMessage(StatusPrettyPrint(es),
                                                          instance.ip_address)]
                        /\ UNCHANGED <<results, items_reversed, mi, si, remaining>>
                 ELSE LET res == Aggregate(<<>>, var_binds)
                          pos == Advance(Get(instance, "metrics", <<>>), res, 1, 1)
                      IN /\ results' = res
                         /\ items_reversed' = (rev /\ pos.rows # {})
                         /\ mi' = pos.mi
                         /\ si' = pos.si
                         /\ remaining' = pos.rows
                         /\ pc' = IF pos.rows = {} THEN "done" ELSE "report"
                         /\ error' = error
  /\ UNCHANGED <<instance, table_oids, submissions, warnings, calls>>

\* report_table_metrics(): one iteration of the loop over the rows of a symbol
ReportRow ==
  /\ pc = "report"
  /\ LET index == NextItem(remaining, items_reversed)
     IN
       LET ms == Get(instance, "metrics", <<>>)
           metric == ms[mi]
           name == SymbolsOf(metric)[si]
           val == results[name][index]
           tags == DeviceTags(instance)
           rules == Get(metric, "metric_tags", <<>>)
           index_tags == IF IsTable(metric) THEN SelectRules(rules, "index") ELSE <<>>
           column_tags == IF IsTable(metric) THEN SelectRules(rules, "column") ELSE <<>>
       IN IF ~IndexTagsOk(index_tags, index)
            THEN /\ pc' = "raised"
                 /\ error' = [type |-> "IndexError", msg |-> "tuple index out of range"]
                 /\ UNCHANGED <<mi, si, remaining, submissions, warnings, calls>>
          ELSE IF ~ColumnTagsOk(results, column_tags, index)
            THEN /\ pc' = "raised"
                 /\ error' = [type |-> "KeyError", msg |-> ToString(index)]
                 /\ UNCHANGED <<mi, si, remaining, submissions, warnings, calls>>
          ELSE LET tag_for_this_index ==
                     tags \o IndexTags(index_tags, index)
                          \o ColumnTags(results, column_tags, index)
                   out == SubmitMetric(name, val, tag_for_this_index)
                   pos == IF remaining = {index}
                            THEN Advance(ms, results, mi, si + 1)
                            ELSE [mi |-> mi, si |-> si, rows |-> remaining \ {index}]
               IN /\ submissions' = submissions \o out.subs
                  /\ warnings' = warnings \o out.warns
                  /\ calls' = Append(calls, [mi |-> mi, si |-> si, name |-> name,
                                             index |-> index, value |-> val,
                                             emitted |-> Len(out.subs),
                                             sub |-> IF out.subs = <<>> THEN 0
                                                     ELSE Len(submissions) + 1,
                                             logged |-> Len(out.warns)])
                  /\ mi' = pos.mi
                  /\ si' = pos.si
                  /\ remaining' = pos.rows
                  /\ pc' = IF pos.rows = {} THEN "done" ELSE "report"
                  /\ error' = error
  /\ UNCHANGED <<instance, table_oids, error_indication, error_status, results,
                 items_reversed, queries>>

Next == BuildQuery \/ CheckTable \/ ReportRow

Spec == Init /\ [][Next]_vars

(* ------------------ classification of one reply value ------------------ *)
\* The state after a query whose reply holds one value of any wire type.
WireClasses ==
  {"Counter32", "Counter64", "ZeroBasedCounter64", "Gauge32", "CounterBasedGauge64",
   "Integer", "Integer32", "Unsigned32", "TimeTicks"}
Payloads == {0, 1, 12345, 2147483647}
AllValues ==
  {Val(c, p) : c \in WireClasses, p \in Payloads} \cup {NoSuchInstanceVal, NoSuchObjectVal}

OneValueInstance(m) ==
  [ip_address |-> "10.0.0.1", tags |-> <<"env:lab">>, metrics |-> << m >>,
   community_string |-> "public"]

InitSubmit ==
  \E m \in {ScalarSpec, IndexTableSpec(1)}, v \in AllValues :
    LET name == SymbolsOf(m)[1]
        index == IF IsTable(m) THEN <<1>> ELSE <<0>>
        res == Aggregate(<<>>, << << [metric |-> name, indexes |-> index,
                                      value |-> v] >> >>)
    IN /\ instance = OneValueInstance(m)
       /\ pc = "report"
       /\ table_oids = BuildOids(<< m >>).oids
       /\ error_indication = ""
       /\ error_status = 0
       /\ results = res
       /\ items_reversed = FALSE
       /\ mi = 1
       /\ si = 1
       /\ remaining = {index}
       /\ submissions = <<>>
       /\ warnings = <<>>
       /\ error = NoError
       /\ calls = <<>>
       /\ queries = 1

NextSubmit == ReportRow

SpecSubmit == InitSubmit /\ [][NextSubmit]_vars

(* ------------------------- notions of the claims ------------------------ *)
Contains(s, t) ==
  \E i \in 1..(Len(s) - Len(t) + 1) : SubSeq(s, i, i + Len(t) - 1) = t

Metrics == instance.metrics

\* a value that is neither sentinel and whose wire type is a counter or a gauge
IsCounterValue(v) ==
  v.tag = "value" /\ v.cls \in {"Counter32", "Counter64", "ZeroBasedCounter64"}
IsGaugeValue(v) == v.tag = "value" /\ v.cls \in {"Gauge32", "CounterBasedGauge64"}
IsSentinel(v) == v.tag # "value"

Rows(name) == IF name \in DOMAIN results THEN DOMAIN results[name] ELSE {}

\* the calls of submit_metric made for symbol j of metric spec i
CallsFor(i, j) == {k \in 1..Len(calls) : calls[k].mi = i /\ calls[k].si = j}
EmittedFor(i, j) == {k \in CallsFor(i, j) : calls[k].emitted = 1}

\* every (spec, symbol, row) the loops of report_table_metrics go through
AllRows ==
  UNION {UNION {{<<i, j, ix>> : ix \in Rows(SymbolsOf(Metrics[i])[j])}
                  : j \in 1..Len(SymbolsOf(Metrics[i]))}
           : i \in 1..Len(Metrics)}
CalledRows == {<<calls[k].mi, calls[k].si, calls[k].index>> : k \in 1..Len(calls)}

BaseAndDevice == instance.tags \o << "snmp_device:" \o instance.ip_address >>

TagRulesOf(m) == IF "metric_tags" \in DOMAIN m THEN m.metric_tags ELSE <<>>
IndexRulesUpTo(rules, k) == {n \in 1..k : "index" \in DOMAIN rules[n]}
ColumnRulesUpTo(rules, k) == {n \in 1..k : "column" \in DOMAIN rules[n]}

(* --------------------------------- C1 ----------------------------------- *)
\* C1: whenever the transport query returned a non-empty error_indication or a
\* non-zero error_status, the cycle has raised an error whose text contains the
\* underlying error text and the instance's ip_address, and no submission (and
\* no call of submit_metric) was made in the cycle.
C1_TransportErrorRaises ==
  (error_indication # "" \/ error_status # 0) =>
    /\ pc = "raised"
    /\ error.type = "Exception"
    /\ error_indication # "" => Contains(error.msg, error_indication)
    /\ (error_indication = "" /\ error_status = 2) => Contains(error.msg, "noSuchName")
    /\ Contains(error.msg, instance.ip_address)
    /\ submissions = <<>>
    /\ calls = <<>>

C1_Witness ==
  /\ pc = "raised"
  /\ error_indication = ""
  /\ error_status = 2
  /\ Len(table_oids) = 2

(* --------------------------------- C2 ----------------------------------- *)
\* C2: a non-sentinel value passed to submit_metric yields exactly one rate
\* submission with its integer value (and no gauge) when its wire type is a
\* counter type, exactly one gauge submission (and no rate) when it is a gauge
\* type, and otherwise no submission and a logged warning naming the type; the
\* counter and gauge sets are disjoint.
C2_Classification ==
  /\ \A i \in 1..Len(SNMP_COUNTERS), j \in 1..Len(SNMP_GAUGES) :
       SNMP_COUNTERS[i] # SNMP_GAUGES[j]
  /\ \A k \in 1..Len(calls) :
       LET v == calls[k].value
       IN ~IsSentinel(v) =>
            /\ IsCounterValue(v) =>
                 /\ calls[k].emitted = 1
                 /\ submissions[calls[k].sub].kind = "rate"
                 /\ submissions[calls[k].sub].value = v.payload
            /\ IsGaugeValue(v) =>
                 /\ calls[k].emitted = 1
                 /\ submissions[calls[k].sub].kind = "gauge"
                 /\ submissions[calls[k].sub].value = v.payload
            /\ (~IsCounterValue(v) /\ ~IsGaugeValue(v)) =>
                 /\ calls[k].emitted = 0
                 /\ \E w \in 1..Len(warnings) :
                      warnings[w] = "Unsupported metric type " \o v.cls
  /\ Len(submissions) = Cardinality({k \in 1..Len(calls) : calls[k].emitted = 1})

C2_Witness ==
  /\ Len(calls) = 1
  /\ calls[1].value = Val("ZeroBasedCounter64", 2147483647)
  /\ Len(submissions) = 1
  /\ submissions[1].kind = "rate"

(* --------------------------------- C3 ----------------------------------- *)
\* C3: a call of submit_metric with either invalid-reply sentinel makes no
\* submission and logs exactly one warning, and the cycle goes on: a cycle that
\* was not failed by tag resolution ends with every row of every spec handed to
\* submit_metric and every counter or gauge value among them submitted.
C3_SentinelSkipped ==
  /\ \A k \in 1..Len(calls) :
       IsSentinel(calls[k].value) => calls[k].emitted = 0 /\ calls[k].logged = 1
  /\ Len(submissions) = Cardinality({k \in 1..Len(calls) : calls[k].emitted = 1})
  /\ pc = "raised" => error.type \in {"Exception", "IndexError", "KeyError"}
  /\ (pc = "raised" /\ calls # <<>>) => error.type \in {"IndexError", "KeyError"}
  /\ pc = "done" =>
       /\ CalledRows = AllRows
       /\ Len(calls) = Cardinality(AllRows)
       /\ \A k \in 1..Len(calls) :
            (IsCounterValue(calls[k].value) \/ IsGaugeValue(calls[k].value))
              => calls[k].emitted = 1

C3_Witness ==
  /\ pc = "done"
  /\ \E k \in 1..Len(calls), l \in 1..Len(calls) :
       /\ k < l
       /\ calls[k].value = NoSuchInstanceVal
       /\ calls[l].emitted = 1
  /\ \E k \in 1..Len(calls) : calls[k].value = NoSuchObjectVal

(* --------------------------------- C4 ----------------------------------- *)
NoTableNoSymbol(m) == ~("table" \in DOMAIN m) /\ ~("symbol" \in DOMAIN m)
ConfigError == "Unsupported metrics format in config file"

\* C4 as claimed: once query building is over, an instance with a metric spec
\* that has neither a table nor a symbol has failed with the configuration
\* error, with no transport query issued and no submission made.
C4_NeitherFailsFast ==
  (pc # "build" /\ \E i \in 1..Len(Metrics) : NoTableNoSymbol(Metrics[i])) =>
    /\ pc = "raised"
    /\ error.msg = ConfigError
    /\ queries = 0
    /\ submissions = <<>>

\* C4 amended: the hard stop is for a metric spec without the MIB key: the run
\* fails with the configuration error, no transport query is issued and no
\* submission is made, whatever the other specs are. When every spec has a MIB,
\* the build never fails: a spec with neither table nor symbol is skipped with
\* one warning each, and one query target is built for every other spec.
C4_MissingMibFailsFast ==
  pc # "build" =>
    IF \E i \in 1..Len(Metrics) : ~("MIB" \in DOMAIN Metrics[i])
      THEN /\ pc = "raised"
           /\ error.msg = ConfigError
           /\ queries = 0
           /\ submissions = <<>>
           /\ calls = <<>>
      ELSE /\ error.msg # ConfigError
           /\ Cardinality({w \in 1..Len(warnings) :
                             warnings[w] = "Can't generate MIB object for variable"})
                = Cardinality({i \in 1..Len(Metrics) : NoTableNoSymbol(Metrics[i])})
           /\ Len(table_oids)
                = Cardinality({i \in 1..Len(Metrics) : ~NoTableNoSymbol(Metrics[i])})
           /\ ("community_string" \in DOMAIN instance) => queries = 1 \/ pc = "query"

C4_Witness ==
  /\ Len(Metrics) = 2
  /\ NoTableNoSymbol(Metrics[1])
  /\ "MIB" \in DOMAIN Metrics[1]
  /\ pc = "done"
  /\ Len(submissions) = 1

(* --------------------------------- C5 ----------------------------------- *)
TableSymbols ==
  UNION {{<<i, j>> : j \in 1..Len(SymbolsOf(Metrics[i]))}
           : i \in {n \in 1..Len(Metrics) : IsTable(Metrics[n])}}

SubmittableRows(name) ==
  {ix \in Rows(name) : IsCounterValue(results[name][ix]) \/ IsGaugeValue(results[name][ix])}

\* C5 as claimed: in a completed cycle, for every value symbol of every table
\* spec, the number of submissions made for it equals the number of RowIndex
\* entries the ResultSet holds for the symbol.
C5_OneSubmissionPerRow ==
  pc = "done" =>
    \A t \in TableSymbols :
      Cardinality(EmittedFor(t[1], t[2]))
        = Cardinality(Rows(SymbolsOf(Metrics[t[1]])[t[2]]))

\* C5 amended: for every value symbol of every table spec, a completed cycle
\* has called submit_metric once per RowIndex entry of the symbol and has made
\* one submission per entry whose value is a counter or a gauge (none for a
\* sentinel or an unsupported type); a cycle that raised has made at most that
\* many, each for a different entry.
C5_OneSubmissionPerValidRow ==
  \A t \in TableSymbols :
    LET name == SymbolsOf(Metrics[t[1]])[t[2]]
    IN /\ Cardinality(EmittedFor(t[1], t[2])) <= Cardinality(SubmittableRows(name))
       /\ \A k \in CallsFor(t[1], t[2]), l \in CallsFor(t[1], t[2]) :
            calls[k].index = calls[l].index => k = l
       /\ {calls[k].index : k \in EmittedFor(t[1], t[2])} \subseteq SubmittableRows(name)
       /\ pc = "done" =>
            /\ Cardinality(CallsFor(t[1], t[2])) = Cardinality(Rows(name))
            /\ Cardinality(EmittedFor(t[1], t[2])) = Cardinality(SubmittableRows(name))

C5_Witness ==
  /\ pc = "done"
  /\ \E t \in TableSymbols :
       /\ Cardinality(Rows(SymbolsOf(Metrics[t[1]])[t[2]])) = 2
       /\ Cardinality(EmittedFor(t[1], t[2])) = 1

(* --------------------------------- C6 ----------------------------------- *)
ScalarsWithOneEntry ==
  {i \in 1..Len(Metrics) : IsScalar(Metrics[i]) /\ Cardinality(Rows(Metrics[i].symbol)) = 1}

\* C6 as claimed: in a completed cycle every scalar spec whose symbol has
\* exactly one entry in the ResultSet has exactly one submission, tagged with
\* the base tags followed by the device tag.
C6_ScalarOneSubmission ==
  pc = "done" =>
    \A i \in ScalarsWithOneEntry :
      /\ Cardinality(EmittedFor(i, 1)) = 1
      /\ \A k \in EmittedFor(i, 1) : submissions[calls[k].sub].tags = BaseAndDevice

\* C6 amended: for every scalar spec whose symbol has exactly one entry in the
\* ResultSet, a completed cycle has called submit_metric exactly once for it (a
\* raised cycle at most once), which made exactly one submission when the value
\* is a counter or a gauge and none when it is a sentinel or of an unsupported
\* type; the submission's tags are exactly the base tags followed by
\* snmp_device:<ip_address>, whatever tag rules the table specs define.
C6_ScalarOneCall ==
  \A i \in ScalarsWithOneEntry :
    /\ Cardinality(CallsFor(i, 1)) <= 1
    /\ pc = "done" => Cardinality(CallsFor(i, 1)) = 1
    /\ \A k \in CallsFor(i, 1) :
         /\ calls[k].value = results[Metrics[i].symbol][calls[k].index]
         /\ calls[k].emitted =
              (IF IsCounterValue(calls[k].value) \/ IsGaugeValue(calls[k].value)
                 THEN 1 ELSE 0)
         /\ calls[k].emitted = 1 =>
              /\ submissions[calls[k].sub].tags = BaseAndDevice
              /\ submissions[calls[k].sub].value = calls[k].value.payload

C6_Witness ==
  /\ pc = "done"
  /\ Len(Metrics) = 2
  /\ Metrics[1] = ColumnTableSpec
  /\ 2 \in ScalarsWithOneEntry
  /\ Cardinality(EmittedFor(1, 1)) = 2
  /\ Cardinality(EmittedFor(2, 1)) = 1

(* --------------------------------- C7 ----------------------------------- *)
\* C7: scenario A. A cycle for the one scalar spec sysUpTime whose reply value is
\* Counter32 12345 ends with exactly one submission: a rate named snmp.sysUpTime
\* with value 12345 and the base tags (the instance tags and the device tag).
C7_ScenarioA ==
  (/\ pc = "done"
   /\ Metrics = << ScalarSpec >>
   /\ Rows("sysUpTime") = {<<0>>}
   /\ results["sysUpTime"][<<0>>] = Val("Counter32", 12345)) =>
    /\ Len(submissions) = 1
    /\ submissions[1].kind = "rate"
    /\ submissions[1].name = "snmp.sysUpTime"
    /\ submissions[1].value = 12345
    /\ submissions[1].tags = BaseAndDevice

(* --------------------------------- C8 ----------------------------------- *)
TableCalls == {k \in 1..Len(calls) : IsTable(Metrics[calls[k].mi]) /\ calls[k].emitted = 1}

ScenarioB ==
  /\ Metrics = << IndexTableSpec(1) >>
  /\ Rows("ifInOctets") = {<<1>>, <<2>>}
  /\ results["ifInOctets"][<<1>>] = Val("Counter32", 500)
  /\ results["ifInOctets"][<<2>>] = Val("Counter32", 900)

\* C8: the submission of a table row carries, for every index-based tag rule
\* (tag T, position N) with 1 <= N <= length of the row's RowIndex, the tag
\* "T:<component N of that RowIndex, counted from 1>", the index tags in rule
\* order right after the base tags and the device tag and before the column
\* tags; in scenario B the rows (1,) and (2,) give two rate submissions tagged
\* interface:1 and interface:2.
C8_IndexTags ==
  /\ \A k \in TableCalls :
       LET rules == TagRulesOf(Metrics[calls[k].mi])
           tags == submissions[calls[k].sub].tags
           nbase == Len(BaseAndDevice)
           nindex == Cardinality(IndexRulesUpTo(rules, Len(rules)))
       IN /\ SubSeq(tags, 1, nbase) = BaseAndDevice
          /\ Len(tags) = nbase + Len(rules)
          /\ \A n \in 1..Len(rules) :
               /\ ("index" \in DOMAIN rules[n]
                     /\ rules[n].index >= 1 /\ rules[n].index <= Len(calls[k].index)) =>
                    tags[nbase + Cardinality(IndexRulesUpTo(rules, n))]
                      = rules[n].tag \o ":" \o ToString(calls[k].index[rules[n].index])
               /\ "column" \in DOMAIN rules[n] =>
                    tags[nbase + nindex + Cardinality(ColumnRulesUpTo(rules, n))]
                      = rules[n].tag \o ":"
                          \o ToString(results[rules[n].column][calls[k].index].payload)
  /\ (pc = "done" /\ ScenarioB) =>
       /\ Len(submissions) = 2
       /\ \A n \in 1..2 : submissions[n].kind = "rate"
       /\ {<<submissions[n].value, submissions[n].tags>> : n \in 1..2}
            = {<<500, BaseAndDevice \o <<"interface:1">> >>,
               <<900, BaseAndDevice \o <<"interface:2">> >>}

C8_Witness ==
  /\ pc = "done"
  /\ ScenarioB
  /\ Len(submissions) = 2

(* --------------------------------- C9 ----------------------------------- *)
\* C9: no submission of a table row is made under an index-based tag rule whose
\* position N is out of range for the row's RowIndex (N <= 0 or N greater than
\* the number of components): no tag value is read from another component.
C9_NoWrap ==
  \A k \in TableCalls :
    LET rules == TagRulesOf(Metrics[calls[k].mi])
    IN \A n \in 1..Len(rules) :
         "index" \in DOMAIN rules[n] =>
           rules[n].index >= 1 /\ rules[n].index <= Len(calls[k].index)

(* --------------------------------- C10 ---------------------------------- *)
ColumnMiss(m, ix) ==
  \E n \in 1..Len(TagRulesOf(m)) :
    /\ "column" \in DOMAIN TagRulesOf(m)[n]
    /\ ix \notin Rows(TagRulesOf(m)[n].column)

\* the row the cycle was at when it stopped
CurrentRow ==
  CHOOSE ix \in remaining :
    \A o \in remaining : IF items_reversed THEN o[1] <= ix[1] ELSE ix[1] <= o[1]

\* C10: a column-based tag rule whose column has no entry for a row's RowIndex
\* fails the cycle at that row: no row with such a miss is ever handed to
\* submit_metric (no skipped tag), no cycle completes with such a row (no
\* skipped row), and the cycle that raised keeps the submissions made before
\* the row and makes none for it or after it.
C10_ColumnMissFailsCycle ==
  /\ \A k \in 1..Len(calls) :
       IsTable(Metrics[calls[k].mi]) =>
         /\ ~ColumnMiss(Metrics[calls[k].mi], calls[k].index)
         /\ calls[k].emitted = 1 =>
              Len(submissions[calls[k].sub].tags)
                = Len(BaseAndDevice) + Len(TagRulesOf(Metrics[calls[k].mi]))
  /\ pc = "done" =>
       \A r \in AllRows : IsTable(Metrics[r[1]]) => ~ColumnMiss(Metrics[r[1]], r[3])
  /\ (pc = "raised" /\ error.type = "KeyError") =>
       /\ IsTable(Metrics[mi])
       /\ ColumnMiss(Metrics[mi], CurrentRow)
       /\ <<mi, si, CurrentRow>> \notin CalledRows
       /\ \A k \in 1..Len(calls) :
            calls[k].mi < mi \/ (calls[k].mi = mi /\ calls[k].si <= si)
       /\ Len(submissions) = Cardinality({k \in 1..Len(calls) : calls[k].emitted = 1})
       /\ \A k \in 1..Len(calls) :
            (IsCounterValue(calls[k].value) \/ IsGaugeValue(calls[k].value))
              => calls[k].emitted = 1 /\ calls[k].sub <= Len(submissions)

C10_Witness ==
  /\ pc = "raised"
  /\ error.type = "KeyError"
  /\ Len(submissions) > 0
  /\ Rows("ifSpeed") # {}

====
